---- MODULE Spec2Model ----
(***************************************************************************)
(* blackcows-ai-server: the AI prediction service                          *)
(* (services/ai_prediction_service.py).                                    *)
(*                                                                         *)
(* Conventions of the model                                                *)
(*  - Python None is the string "None"; a loaded estimator is "model", a   *)
(*    loaded scaler is "scaler".                                           *)
(*  - An artifact file is "missing", "corrupt" (it exists, joblib.load     *)
(*    raises) or "ok".                                                     *)
(*  - The outcome of a call is a record: kind "ok" with the response dict, *)
(*    kind "HTTPException" with status_code and detail, or kind            *)
(*    "Exception" with the Python exception type and message.              *)
(*  - Somatic cell counts are floats: the value v stands for the count     *)
(*    v / SccDenominator.  Confidences are kept in tenths (95.0 is 950).   *)
(*  - The library calls (scaler.transform, model.predict, ...) are opaque: *)
(*    what they do for one request is the record env, chosen by the        *)
(*    environment for every call.                                          *)
(*  - uuid4 ids, timestamps and latencies are left out of the responses;   *)
(*    the Korean texts of the source are given in English.                 *)
(***************************************************************************)
EXTENDS Integers, Sequences, FiniteSets, TLC

VARIABLES
    files,      \* the artifact files on disk: path -> "missing" | "corrupt" | "ok"
    cache,      \* the class attributes _<family>_model/_scaler/_cache_loaded
    op,         \* the handler that ran last
    request,    \* its request
    result,     \* its outcome
    loads,      \* the accessor calls it made, in order
    trace,      \* the other collaborators a single prediction called, in order
    items,      \* the outcome of every item a batch runner processed, in order
    threads     \* the accessor calls in flight: each one's position and answer

vars == <<files, cache, op, request, result, loads, trace, items, threads>>

(***************************************************************************)
(* Bounds                                                                  *)
(***************************************************************************)
\* the longest batch request explored
MaxBatch == 2
\* somatic cell counts are explored in steps of 1 / SccDenominator
SccDenominator == 2
\* somatic cell counts up to SccThresholdCaution + SccMargin are explored
SccMargin == 2
\* the largest ensemble explored
MaxTrees == 2
\* the accessor calls that run at the same time
MaxThreads == 2

None == "None"

Families == {"milk_yield", "mastitis"}

MODEL_PATH(family) ==
    IF family = "milk_yield" THEN "MILK_YIELD_MODEL_PATH" ELSE "MASTITIS_MODEL_PATH"

SCALER_PATH(family) ==
    IF family = "milk_yield" THEN "MILK_YIELD_SCALER_PATH" ELSE "MASTITIS_SCALER_PATH"

Paths == {MODEL_PATH(f) : f \in Families} \cup {SCALER_PATH(f) : f \in Families}

FileStates == {"missing", "corrupt", "ok"}

\* Path.exists()
exists(fs, path) == fs[path] # "missing"

\* joblib.load(path) returns the object; it raises on a missing or corrupt file
joblib_loads(fs, path) == fs[path] = "ok"

\* the class attributes before any load (lines 28-33)
EmptyCache == [model |-> None, scaler |-> None, loaded |-> FALSE]

(***************************************************************************)
(* Model Registry: the two accessors.  c is the family's cache, fs the     *)
(* disk, stat_error whether Path.exists() raises (a permission error).     *)
(* The answer is the new cache, the returned pair and the disk accesses.   *)
(***************************************************************************)
AccessorAnswer(family, c, ret, probes, deserializations, hit) ==
    [family |-> family, cache |-> c, ret |-> ret, probes |-> probes,
     deserializations |-> deserializations, hit |-> hit]

\* the failure paths: the flag is set, the attributes stay as they are, and
\* the literal pair (None, None) is returned
LoadFailed(family, c, probes, deserializations) ==
    AccessorAnswer(family, [c EXCEPT !.loaded = TRUE], <<None, None>>,
                   probes, deserializations, FALSE)

\* lines 41-66: the try block of _load_models and its except clause
milk_yield_load(c, fs, stat_error) ==
    IF stat_error
    THEN LoadFailed("milk_yield", c, 1, 0)
    ELSE IF ~exists(fs, MODEL_PATH("milk_yield"))
    THEN LoadFailed("milk_yield", c, 1, 0)
    ELSE IF ~exists(fs, SCALER_PATH("milk_yield"))
    THEN LoadFailed("milk_yield", c, 2, 0)
    ELSE IF ~joblib_loads(fs, SCALER_PATH("milk_yield"))
    THEN LoadFailed("milk_yield", c, 2, 1)
    ELSE IF ~joblib_loads(fs, MODEL_PATH("milk_yield"))
    THEN LoadFailed("milk_yield", [c EXCEPT !.scaler = "scaler"], 2, 2)
    ELSE AccessorAnswer("milk_yield",
                        [model |-> "model", scaler |-> "scaler", loaded |-> TRUE],
                        <<"model", "scaler">>, 2, 2, FALSE)

\* a registry that probes the disk again while it holds no model
_load_models_retrying(c, fs, stat_error) ==
    IF c.loaded /\ c.model # None
    THEN AccessorAnswer("milk_yield", c, <<c.model, c.scaler>>, 0, 0, TRUE)
    ELSE milk_yield_load(c, fs, stat_error)

\* a registry that drops a cached model whose file has left the disk
_load_models_revalidating(c, fs, stat_error) ==
    IF c.loaded /\ c.model # None /\ ~exists(fs, MODEL_PATH("milk_yield"))
    THEN AccessorAnswer("milk_yield", [c EXCEPT !.model = None, !.scaler = None],
                        <<None, None>>, 1, 0, FALSE)
    ELSE IF c.loaded
    THEN AccessorAnswer("milk_yield", c, <<c.model, c.scaler>>, 0, 0, TRUE)
    ELSE milk_yield_load(c, fs, stat_error)

_load_models(c, fs, stat_error) ==
    IF c.loaded
    THEN AccessorAnswer("milk_yield", c, <<c.model, c.scaler>>, 0, 0, TRUE)
    ELSE milk_yield_load(c, fs, stat_error)

\* lines 72-80: the try block of _load_mastitis_models and its except clause
mastitis_load(c, fs) ==
    IF ~joblib_loads(fs, SCALER_PATH("mastitis"))
    THEN LoadFailed("mastitis", c, 0, 1)
    ELSE IF ~joblib_loads(fs, MODEL_PATH("mastitis"))
    THEN LoadFailed("mastitis", [c EXCEPT !.scaler = "scaler"], 0, 2)
    ELSE AccessorAnswer("mastitis",
                        [model |-> "model", scaler |-> "scaler", loaded |-> TRUE],
                        <<"model", "scaler">>, 0, 2, FALSE)

_load_mastitis_models(c, fs) ==
    IF c.loaded
    THEN AccessorAnswer("mastitis", c, <<c.model, c.scaler>>, 0, 0, TRUE)
    ELSE mastitis_load(c, fs)

(***************************************************************************)
(* Outcomes                                                                *)
(***************************************************************************)
Ok(response) == [kind |-> "ok", response |-> response]

HTTPException(status_code, detail) ==
    [kind |-> "HTTPException", status_code |-> status_code, detail |-> detail]

PyException(type, message) == [kind |-> "Exception", type |-> type, message |-> message]

HTTP_400_BAD_REQUEST == 400
HTTP_500_INTERNAL_SERVER_ERROR == 500
HTTP_503_SERVICE_UNAVAILABLE == 503

\* an internal error that hands the exception's text to the client
InternalErrorLeaking(detail, e) ==
    HTTPException(HTTP_500_INTERNAL_SERVER_ERROR, e.message)

\* except Exception as e: raise HTTPException(500, detail=<fixed text>)
InternalError(detail, e) == HTTPException(HTTP_500_INTERNAL_SERVER_ERROR, detail)

(***************************************************************************)
(* Requests and the environment of one call                                *)
(***************************************************************************)
\* cow_id is optional and only echoed: 0 stands for an absent cow_id, 1 for
\* a cow id
CowIds == {0, 1}

\* the numeric features of a yield or mastitis request are opaque to the
\* service (they go to the scaler and come back in the echo)
FeatureRequests == [cow_id : CowIds]

\* what the library does for one call: whether Path.exists() raises, which
\* step fails, what the estimator predicts, what each member of the ensemble
\* predicts (yield) or the rounded share of the winning class (mastitis),
\* and confidence_raises: the estimator has no estimators_ / predict_proba
Faults == {"none", "vectorize", "transform", "predict", "response"}

\* the ensemble of the calls that are not about the confidence
YieldTreeSamples == {<<1, 2>>}

YieldEnvs ==
    [stat_error : BOOLEAN, fault : Faults, prediction : {2550},
     confidence_raises : BOOLEAN, tree_predictions : YieldTreeSamples]

MastitisEnvs ==
    [fault : Faults, prediction : {-4, -1, 0, 1, 2, 3},
     confidence_raises : BOOLEAN, confidence : {667}]

HealthEnvs == [stat_error : BOOLEAN, fault : {"none", "transform", "predict"}]

CONFIDENCE_FALLBACK == 750

CONFIDENCE_NONPOSITIVE_MEAN == 500

RECURSIVE Sum(_)
Sum(seq) == IF seq = <<>> THEN 0 ELSE seq[1] + Sum(Tail(seq))

RECURSIVE SumSq(_)
SumSq(seq) == IF seq = <<>> THEN 0 ELSE seq[1] * seq[1] + SumSq(Tail(seq))

\* np.std and np.mean of the n member predictions, kept exact: the mean is
\* MeanNum / n and the standard deviation sqrt(VarNum) / n, so that
\* cv = std_dev / mean_pred = sqrt(VarNum) / MeanNum
MeanNum(tree_predictions) == Sum(tree_predictions)

VarNum(tree_predictions) ==
    Len(tree_predictions) * SumSq(tree_predictions)
        - Sum(tree_predictions) * Sum(tree_predictions)

\* the largest w of lo..hi with w / 2000 <= sqrt(q) / s, by bisection
RECURSIVE LargestWithin(_, _, _, _)
LargestWithin(lo, hi, q, s) ==
    IF lo = hi THEN lo
    ELSE LET mid == (lo + hi + 1) \div 2
         IN  IF mid * mid * s * s <= 4000000 * q
             THEN LargestWithin(mid, hi, q, s)
             ELSE LargestWithin(lo, mid - 1, q, s)

\* min(cv, 1) for cv = sqrt(q) / s with s > 0, in half thousandths and cut
\* off: the largest w with w / 2000 <= min(cv, 1)
MinCvOne(q, s) == IF q >= s * s THEN 2000 ELSE LargestWithin(0, 1999, q, s)

\* a rounding that cuts the value off after the first decimal
round_down(q, s, w) ==
    IF w * w * s * s = 4000000 * q \/ q >= s * s
    THEN 1000 - ((w + 1) \div 2)
    ELSE 1000 - ((w \div 2) + 1)

\* round(confidence, 1) of confidence = (1 - min(cv, 1)) * 100, in tenths:
\* the nearest tenth, the even one of two that are equally near
round(q, s, w) ==
    IF w % 2 = 0 THEN 1000 - (w \div 2)
    ELSE IF w * w * s * s = 4000000 * q /\ (1000 - (w \div 2)) % 2 = 0
    THEN 1000 - (w \div 2)
    ELSE 1000 - (w \div 2) - 1

max(a, b) == IF a >= b THEN a ELSE b

min(a, b) == IF a <= b THEN a ELSE b

\* lines 94-105 of _calculate_confidence
confidence_of(tree_predictions) ==
    LET s == MeanNum(tree_predictions)
        q == VarNum(tree_predictions)
    IN  IF s > 0
        THEN max(0, min(1000, round(q, s, MinCvOne(q, s))))
        ELSE CONFIDENCE_NONPOSITIVE_MEAN

\* a confidence estimator whose exception reaches the caller
_calculate_confidence_unguarded(env) ==
    IF env.confidence_raises
    THEN PyException("AttributeError", "estimators_")
    ELSE Ok([confidence |-> confidence_of(env.tree_predictions)])

\* lines 82-109: the ensemble's confidence, 75.0 on any exception
_calculate_confidence(env) ==
    IF env.confidence_raises
    THEN Ok([confidence |-> CONFIDENCE_FALLBACK])
    ELSE Ok([confidence |-> confidence_of(env.tree_predictions)])

\* lines 111-121: round(max(predict_proba) * 100, 1), 75.0 on any exception
_calculate_mastitis_confidence(env) ==
    IF env.confidence_raises
    THEN Ok([confidence |-> CONFIDENCE_FALLBACK])
    ELSE Ok([confidence |-> env.confidence])

\* the trace of a call whose confidence estimator met an exception inside
ConfidenceTrace(name, raised, env) ==
    IF env.confidence_raises THEN <<name, raised>> ELSE <<name>>

MODEL_VERSION == "v2.0.0"

\* the entry of the accessor call a in the handler's log
LoadLog(a) ==
    [family |-> a.family, ret |-> a.ret, probes |-> a.probes,
     deserializations |-> a.deserializations, hit |-> a.hit]

\* the outcome of a handler: its result, the family caches after it, the
\* accessor calls it made, the collaborators it called and, for a batch, the
\* outcomes of its items
Outcome(res, caches, ls, tr) ==
    [result |-> res, cache |-> caches, loads |-> ls, trace |-> tr, items |-> <<>>]

BatchOutcome(res, caches, ls, its) ==
    [result |-> res, cache |-> caches, loads |-> ls, trace |-> <<>>, items |-> its]

\* a list index the way Python does it: negative indices count from the end
PyIndexable(seq, i) == -Len(seq) <= i /\ i < Len(seq)

PyIndex(seq, i) == IF i >= 0 THEN seq[i + 1] ELSE seq[Len(seq) + i + 1]

(***************************************************************************)
(* predict_milk_yield (lines 149-206)                                      *)
(***************************************************************************)
\* the try block: the HTTPException of line 160 or the exception of a step
milk_yield_try(req, a, env) ==
    IF a.ret[1] = None \/ a.ret[2] = None
    THEN [raised |-> HTTPException(HTTP_503_SERVICE_UNAVAILABLE, "AI model unavailable"),
          trace |-> <<>>]
    ELSE IF env.fault = "vectorize"
    THEN [raised |-> PyException("AttributeError", "request.milking_frequency"),
          trace |-> <<"_prepare_features">>]
    ELSE IF env.fault = "transform"
    THEN [raised |-> PyException("ValueError", "scaler.transform"),
          trace |-> <<"_prepare_features", "transform">>]
    ELSE IF env.fault = "predict"
    THEN [raised |-> PyException("ValueError", "model.predict"),
          trace |-> <<"_prepare_features", "transform", "predict">>]
    ELSE IF _calculate_confidence(env).kind # "ok"
    THEN [raised |-> _calculate_confidence(env),
          trace |-> <<"_prepare_features", "transform", "predict">>
                        \o ConfidenceTrace("_calculate_confidence", "raised: estimators_", env)]
    ELSE IF env.fault = "response"
    THEN [raised |-> PyException("TypeError", "float(prediction)"),
          trace |-> <<"_prepare_features", "transform", "predict">>
                        \o ConfidenceTrace("_calculate_confidence", "raised: estimators_", env)
                        \o <<"raised: float(prediction)">>]
    ELSE [raised |-> Ok([cow_id |-> req.cow_id,
                         predicted_milk_yield |-> env.prediction,
                         confidence |-> _calculate_confidence(env).response.confidence,
                         model_version |-> MODEL_VERSION]),
          trace |-> <<"_prepare_features", "transform", "predict">>
                        \o ConfidenceTrace("_calculate_confidence", "raised: estimators_", env)]

\* except HTTPException: raise / except Exception: raise HTTPException(500)
reraise(r, detail) == IF r.kind = "Exception" THEN InternalError(detail, r) ELSE r

predict_milk_yield(req, caches, fs, env) ==
    LET a == _load_models(caches["milk_yield"], fs, env.stat_error)
        t == milk_yield_try(req, a, env)
    IN  Outcome(reraise(t.raised, "prediction processing error"),
                [caches EXCEPT !["milk_yield"] = a.cache],
                <<LoadLog(a)>>, t.trace)

(***************************************************************************)
(* predict_mastitis (lines 208-264)                                        *)
(***************************************************************************)
LABELS == <<"normal", "caution", "inflammation possible + mastitis suspected">>

mastitis_try(req, a, env) ==
    IF a.ret[1] = None \/ a.ret[2] = None
    THEN [raised |-> HTTPException(HTTP_503_SERVICE_UNAVAILABLE,
                                   "mastitis AI model unavailable"),
          trace |-> <<>>]
    ELSE IF env.fault = "vectorize"
    THEN [raised |-> PyException("AttributeError", "request.milk_yield"),
          trace |-> <<"_prepare_mastitis_features">>]
    ELSE IF env.fault = "transform"
    THEN [raised |-> PyException("ValueError", "scaler.transform"),
          trace |-> <<"_prepare_mastitis_features", "transform">>]
    ELSE IF env.fault = "predict"
    THEN [raised |-> PyException("ValueError", "model.predict"),
          trace |-> <<"_prepare_mastitis_features", "transform", "predict">>]
    ELSE IF _calculate_mastitis_confidence(env).kind # "ok"
    THEN [raised |-> _calculate_mastitis_confidence(env),
          trace |-> <<"_prepare_mastitis_features", "transform", "predict">>
                        \o ConfidenceTrace("_calculate_mastitis_confidence",
                                           "raised: predict_proba", env)]
    ELSE IF ~PyIndexable(LABELS, env.prediction)
    THEN [raised |-> PyException("IndexError", "list index out of range"),
          trace |-> <<"_prepare_mastitis_features", "transform", "predict">>
                        \o ConfidenceTrace("_calculate_mastitis_confidence",
                                           "raised: predict_proba", env)
                        \o <<"raised: LABELS[pred_class]">>]
    ELSE IF env.fault = "response"
    THEN [raised |-> PyException("AttributeError", "request.lactation_number"),
          trace |-> <<"_prepare_mastitis_features", "transform", "predict">>
                        \o ConfidenceTrace("_calculate_mastitis_confidence",
                                           "raised: predict_proba", env)
                        \o <<"raised: request.lactation_number">>]
    ELSE [raised |-> Ok([cow_id |-> req.cow_id,
                         prediction_class |-> env.prediction,
                         prediction_class_label |-> PyIndex(LABELS, env.prediction),
                         confidence |-> _calculate_mastitis_confidence(env).response.confidence,
                         model_version |-> "mastitis_rf_v1"]),
          trace |-> <<"_prepare_mastitis_features", "transform", "predict">>
                        \o ConfidenceTrace("_calculate_mastitis_confidence",
                                           "raised: predict_proba", env)]

predict_mastitis(req, caches, fs, env) ==
    LET a == _load_mastitis_models(caches["mastitis"], fs)
        t == mastitis_try(req, a, env)
    IN  Outcome(reraise(t.raised, "mastitis prediction processing error"),
                [caches EXCEPT !["mastitis"] = a.cache],
                <<LoadLog(a)>>, t.trace)

(***************************************************************************)
(* The rule-based classifier and predict_mastitis_by_scc (lines 266-358)   *)
(***************************************************************************)
SccThresholdNormal == 100
SccThresholdCaution == 300

\* a band that excludes its upper limit
SccLess(v, t) == v < t * SccDenominator

\* scc <= t for the float scc = v / SccDenominator
SccLeq(v, t) == v <= t * SccDenominator

_categorize_scc(scc_value) ==
    IF SccLeq(scc_value, SccThresholdNormal)
    THEN [class |-> 0, label |-> "normal",
          description |-> "somatic cell count in the normal range"]
    ELSE IF SccLeq(scc_value, SccThresholdCaution)
    THEN [class |-> 1, label |-> "caution",
          description |-> "somatic cell count slightly raised"]
    ELSE [class |-> 2, label |-> "inflammation possible + mastitis suspected",
          description |-> "somatic cell count high, mastitis suspected"]

SCC_CONFIDENCE == 950

\* lines 317-349: the classification and the response dict, which reads the
\* keys class, label, description and recommendation of the classification
\* result
mastitis_by_scc_classify(req) ==
    LET classification_result == _categorize_scc(req.somatic_cell_count)
    IN  IF "recommendation" \notin DOMAIN classification_result
        THEN [raised |-> PyException("KeyError", "recommendation"),
              trace |-> <<"_categorize_scc">>]
        ELSE [raised |-> Ok([cow_id |-> req.cow_id,
                             prediction_method |-> "somatic_cell_count",
                             prediction_class |-> classification_result.class,
                             prediction_class_label |-> classification_result.label,
                             confidence |-> SCC_CONFIDENCE,
                             description |-> classification_result.description,
                             recommendation |-> classification_result.recommendation,
                             input_features |-> req.somatic_cell_count]),
              trace |-> <<"_categorize_scc">>]

\* a handler that classifies without looking at the sign
mastitis_by_scc_try_unchecked(req) == mastitis_by_scc_classify(req)

\* the try block of lines 309-349
mastitis_by_scc_try(req) ==
    IF req.somatic_cell_count < 0
    THEN [raised |-> HTTPException(HTTP_400_BAD_REQUEST,
                                   "somatic cell count must be 0 or more"),
          trace |-> <<>>]
    ELSE mastitis_by_scc_classify(req)

\* a handler that wants the mastitis classifier in the registry
predict_mastitis_by_scc_registry(req, caches) ==
    LET t == mastitis_by_scc_try(req)
    IN  IF caches["mastitis"].model = None
        THEN Outcome(HTTPException(HTTP_503_SERVICE_UNAVAILABLE,
                                   "mastitis AI model unavailable"),
                     [caches EXCEPT !["mastitis"].loaded = TRUE], <<>>, <<>>)
        ELSE Outcome(reraise(t.raised, "somatic cell count prediction processing error"),
                     caches, <<>>, t.trace)

predict_mastitis_by_scc(req, caches) ==
    LET t == mastitis_by_scc_try(req)
    IN  Outcome(reraise(t.raised, "somatic cell count prediction processing error"),
                caches, <<>>, t.trace)

(***************************************************************************)
(* check_model_health (lines 546-612)                                      *)
(***************************************************************************)
\* a status that is decided without the test inference
HealthStatusUntested(model_exists, scaler_exists, model_load_success, prediction_test_success) ==
    IF model_exists /\ scaler_exists /\ model_load_success
    THEN "healthy"
    ELSE IF model_exists /\ scaler_exists
    THEN "degraded"
    ELSE "unavailable"

\* lines 577-585
HealthStatus(model_exists, scaler_exists, model_load_success, prediction_test_success) ==
    IF model_exists /\ scaler_exists /\ model_load_success /\ prediction_test_success
    THEN "healthy"
    ELSE IF model_exists /\ scaler_exists
    THEN "degraded"
    ELSE "unavailable"

\* a Path.exists() that raises ends in the outer except (status "error");
\* the inner try absorbs a failing test inference
check_model_health(caches, fs, env) ==
    IF env.stat_error
    THEN Outcome(Ok([status |-> "error"]), caches, <<>>, <<>>)
    ELSE LET model_exists == exists(fs, MODEL_PATH("milk_yield"))
             scaler_exists == exists(fs, SCALER_PATH("milk_yield"))
             a == _load_models(caches["milk_yield"], fs, FALSE)
             model_load_success == a.ret[1] # None /\ a.ret[2] # None
             prediction_test_success == model_load_success /\ env.fault = "none"
         IN  Outcome(Ok([status |-> HealthStatus(model_exists, scaler_exists,
                                                 model_load_success,
                                                 prediction_test_success),
                         checks |-> [model_file_exists |-> model_exists,
                                     scaler_file_exists |-> scaler_exists,
                                     model_load_success |-> model_load_success,
                                     prediction_test_success |-> prediction_test_success,
                                     cache_loaded |-> a.cache.loaded]]),
                     [caches EXCEPT !["milk_yield"] = a.cache],
                     <<LoadLog(a)>>,
                     IF ~model_load_success THEN <<>>
                     ELSE IF env.fault = "transform" THEN <<"transform">>
                     ELSE <<"transform", "predict">>)

(***************************************************************************)
(* initialize_models (lines 661-671), called by the startup event of       *)
(* main.py: the accessor, then "return True"; False only in the except     *)
(* clause, which needs the accessor to raise.                              *)
(***************************************************************************)
initialize_models(caches, fs, stat_error) ==
    LET a == _load_models(caches["milk_yield"], fs, stat_error)
    IN  Outcome(Ok([model_loaded |-> TRUE]),
                [caches EXCEPT !["milk_yield"] = a.cache],
                <<LoadLog(a)>>, <<>>)

(***************************************************************************)
(* The batch runners (lines 360-498).  reqs are the requests, envs the     *)
(* environment of each item's call.  The loop's state is the list of       *)
(* predictions, the two counters, the caches, the accessor log, the        *)
(* outcome of every item processed and the exception that left the loop.   *)
(***************************************************************************)
\* an except clause that lets the HTTPException of an item through
except_Exception_narrow(r) == r.kind = "Exception"

\* "except Exception" catches every failure of an item: HTTPException is an
\* Exception
except_Exception(r) == r.kind \in {"HTTPException", "Exception"}

LoopStart(caches) ==
    [predictions |-> <<>>, successful |-> 0, failed |-> 0, cache |-> caches,
     loads |-> <<>>, items |-> <<>>, uncaught |-> <<>>]

\* a loop that puts the newest prediction first
ItemSucceededFirst(st, o) ==
    [st EXCEPT !.predictions = <<o.result.response>> \o @, !.successful = @ + 1,
               !.cache = o.cache, !.loads = @ \o o.loads,
               !.items = Append(@, [result |-> o.result, trace |-> o.trace])]

\* lines 374-375: predictions.append(prediction); successful += 1
ItemSucceeded(st, o) ==
    [st EXCEPT !.predictions = Append(@, o.result.response), !.successful = @ + 1,
               !.cache = o.cache, !.loads = @ \o o.loads,
               !.items = Append(@, [result |-> o.result, trace |-> o.trace])]

\* a loop that logs the failure of an item and forgets to count it
ItemFailedUncounted(st, o) ==
    [st EXCEPT !.cache = o.cache, !.loads = @ \o o.loads,
               !.items = Append(@, [result |-> o.result, trace |-> o.trace])]

\* lines 376-378: failed += 1, nothing is appended
ItemFailed(st, o) ==
    [st EXCEPT !.failed = @ + 1,
               !.cache = o.cache, !.loads = @ \o o.loads,
               !.items = Append(@, [result |-> o.result, trace |-> o.trace])]

\* str(e) of an HTTPException
str(e) == <<e.status_code, e.detail>>

\* a somatic cell count batch that drops a failed item the way the other two
\* batches do
SccItemFailedSilent(st, req, o) == ItemFailed(st, o)

\* lines 464-477: failed += 1 and the inline error record is appended
SccItemFailed(st, req, o) ==
    [st EXCEPT !.failed = @ + 1,
               !.predictions = Append(@, [cow_id |-> req.cow_id,
                                          error |-> TRUE,
                                          error_message |-> str(o.result),
                                          input_features |-> req.somatic_cell_count]),
               !.cache = o.cache, !.loads = @ \o o.loads,
               !.items = Append(@, [result |-> o.result, trace |-> o.trace])]

\* an exception no except clause of the loop catches leaves the loop
ItemUncaught(st, o) ==
    [st EXCEPT !.uncaught = <<o.result>>,
               !.cache = o.cache, !.loads = @ \o o.loads,
               !.items = Append(@, [result |-> o.result, trace |-> o.trace])]

RECURSIVE milk_yield_batch_loop(_, _, _, _)
milk_yield_batch_loop(reqs, envs, caches, fs) ==
    IF reqs = <<>> THEN LoopStart(caches)
    ELSE LET n == Len(reqs)
             st == milk_yield_batch_loop(SubSeq(reqs, 1, n - 1), SubSeq(envs, 1, n - 1),
                                         caches, fs)
             o == predict_milk_yield(reqs[n], st.cache, fs, envs[n])
         IN  IF st.uncaught # <<>> THEN st
             ELSE IF o.result.kind = "ok" THEN ItemSucceeded(st, o)
             ELSE IF except_Exception(o.result) THEN ItemFailed(st, o)
             ELSE ItemUncaught(st, o)

RECURSIVE mastitis_batch_loop(_, _, _, _)
mastitis_batch_loop(reqs, envs, caches, fs) ==
    IF reqs = <<>> THEN LoopStart(caches)
    ELSE LET n == Len(reqs)
             st == mastitis_batch_loop(SubSeq(reqs, 1, n - 1), SubSeq(envs, 1, n - 1),
                                       caches, fs)
             o == predict_mastitis(reqs[n], st.cache, fs, envs[n])
         IN  IF st.uncaught # <<>> THEN st
             ELSE IF o.result.kind = "ok" THEN ItemSucceeded(st, o)
             ELSE IF except_Exception(o.result) THEN ItemFailed(st, o)
             ELSE ItemUncaught(st, o)

RECURSIVE mastitis_scc_batch_loop(_, _)
mastitis_scc_batch_loop(reqs, caches) ==
    IF reqs = <<>> THEN LoopStart(caches)
    ELSE LET n == Len(reqs)
             st == mastitis_scc_batch_loop(SubSeq(reqs, 1, n - 1), caches)
             o == predict_mastitis_by_scc(reqs[n], st.cache)
         IN  IF st.uncaught # <<>> THEN st
             ELSE IF o.result.kind = "ok" THEN ItemSucceeded(st, o)
             ELSE IF except_Exception(o.result) THEN SccItemFailed(st, reqs[n], o)
             ELSE ItemUncaught(st, o)

\* the dict the batch returns, or the 500 of the outer except clause
BatchResult(reqs, st, detail) ==
    IF st.uncaught # <<>>
    THEN InternalError(detail, st.uncaught[1])
    ELSE Ok([total_predictions |-> Len(reqs),
             successful_predictions |-> st.successful,
             failed_predictions |-> st.failed,
             predictions |-> st.predictions])

predict_milk_yield_batch(reqs, envs, caches, fs) ==
    LET st == milk_yield_batch_loop(reqs, envs, caches, fs)
    IN  BatchOutcome(BatchResult(reqs, st, "batch prediction processing error"),
                st.cache, st.loads, st.items)

predict_mastitis_batch(reqs, envs, caches, fs) ==
    LET st == mastitis_batch_loop(reqs, envs, caches, fs)
    IN  BatchOutcome(BatchResult(reqs, st, "batch mastitis prediction processing error"),
                st.cache, st.loads, st.items)

predict_mastitis_scc_batch(reqs, caches) ==
    LET st == mastitis_scc_batch_loop(reqs, caches)
    IN  BatchOutcome(BatchResult(reqs, st, "batch somatic cell count prediction processing error"),
                st.cache, st.loads, st.items)

(***************************************************************************)
(* The self-test endpoint test_scc_prediction (routers/ai_prediction.py,   *)
(* lines 189-239).                                                         *)
(***************************************************************************)
\* lines 198-202: the sample counts and the labels the test expects
test_cases ==
    <<[scc |-> 50, expected |-> "normal"],
      [scc |-> 150, expected |-> "caution"],
      [scc |-> 400, expected |-> "inflammation possible"]>>

\* lines 206-213: the request object of a case
TestRequest(scc) == [cow_id |-> 1, somatic_cell_count |-> scc * SccDenominator]

\* lines 205-223: the loop over the cases; an exception of a prediction
\* leaves the loop
RECURSIVE test_scc_loop(_, _)
test_scc_loop(cases, caches) ==
    IF cases = <<>> THEN [results |-> <<>>, uncaught |-> <<>>, trace |-> <<>>]
    ELSE LET n == Len(cases)
             st == test_scc_loop(SubSeq(cases, 1, n - 1), caches)
             o == predict_mastitis_by_scc(TestRequest(cases[n].scc), caches)
         IN  IF st.uncaught # <<>> THEN st
             ELSE IF o.result.kind # "ok"
             THEN [st EXCEPT !.uncaught = <<o.result>>,
                             !.trace = Append(@, "predict_mastitis_by_scc")]
             ELSE [st EXCEPT
                      !.results = Append(@,
                          [input_scc |-> cases[n].scc,
                           expected_label |-> cases[n].expected,
                           predicted_label |-> o.result.response.prediction_class_label,
                           predicted_class |-> o.result.response.prediction_class,
                           test_passed |-> o.result.response.prediction_class_label
                                               = cases[n].expected]),
                      !.trace = Append(@, "predict_mastitis_by_scc")]

\* lines 225-239: the report, or the "failed" report of the except clause
test_scc_prediction(caches) ==
    LET st == test_scc_loop(test_cases, caches)
    IN  IF st.uncaught # <<>>
        THEN Outcome(Ok([test_status |-> "failed", error |-> str(st.uncaught[1])]),
                     caches, <<>>, st.trace)
        ELSE Outcome(Ok([test_status |-> "completed",
                         total_tests |-> Len(test_cases),
                         passed_tests |-> Cardinality({i \in DOMAIN st.results :
                                                          st.results[i].test_passed}),
                         failed_tests |-> Cardinality({i \in DOMAIN st.results :
                                                          ~st.results[i].test_passed}),
                         test_results |-> st.results]),
                     caches, <<>>, st.trace)

(***************************************************************************)
(* Request schemas (schemas/ai_prediction.py).  A string is a sequence of  *)
(* one-character strings; an Optional[str] is a record with the flag       *)
(* present (false for None) and the string.  pydantic turns the ValueError *)
(* of a validator into a validation error; any other exception leaves the  *)
(* validator as it is.                                                     *)
(***************************************************************************)
ValidationError(message) == PyException("ValidationError", message)

MAX_BATCH_SIZE == 1000

\* lines 103-109: SomaticCellCountBatchRequest.validate_predictions_count
validate_predictions_count(v) ==
    IF Len(v) = 0
    THEN ValidationError("at least one prediction request is needed")
    ELSE IF Len(v) > MAX_BATCH_SIZE
    THEN ValidationError("at most 1000 requests at a time")
    ELSE Ok([predictions |-> v])

BatchRequestTypes ==
    {"PredictionBatchRequest", "MastitisBatchRequest", "SomaticCellCountBatchRequest"}

\* the predictions field of the three batch schemas: a List of valid items;
\* only the somatic cell count schema has a validator
validate_batch_request(type, v) ==
    IF type = "SomaticCellCountBatchRequest"
    THEN validate_predictions_count(v)
    ELSE Ok([predictions |-> v])

Digits == <<"0", "1", "2", "3", "4", "5", "6", "7", "8", "9">>

IsDigit(c) == \E i \in DOMAIN Digits : Digits[i] = c

DigitValue(c) == (CHOOSE i \in DOMAIN Digits : Digits[i] = c) - 1

\* the number a sequence of digits writes
RECURSIVE DigitsValue(_)
DigitsValue(ds) ==
    IF ds = <<>> THEN 0
    ELSE 10 * DigitsValue(SubSeq(ds, 1, Len(ds) - 1)) + DigitValue(ds[Len(ds)])

\* str.strip(): leading and trailing whitespace removed
RECURSIVE strip(_)
strip(v) ==
    IF v = <<>> THEN v
    ELSE IF v[1] = " " THEN strip(Tail(v))
    ELSE IF v[Len(v)] = " " THEN strip(SubSeq(v, 1, Len(v) - 1))
    ELSE v

IsLeapYear(y) == (y % 4 = 0 /\ y % 100 # 0) \/ y % 400 = 0

DaysInMonth(y, m) ==
    IF m = 2 THEN (IF IsLeapYear(y) THEN 29 ELSE 28)
    ELSE IF m \in {4, 6, 9, 11} THEN 30
    ELSE 31

\* the %m and %d directives: one or two digits (%d also a blank and a digit)
IsMonthField(f) ==
    /\ Len(f) \in {1, 2}
    /\ \A i \in DOMAIN f : IsDigit(f[i])
    /\ DigitsValue(f) \in 1..12

IsDayField(f) ==
    \/ /\ Len(f) \in {1, 2}
       /\ \A i \in DOMAIN f : IsDigit(f[i])
       /\ DigitsValue(f) \in 1..31
    \/ /\ Len(f) = 2
       /\ f[1] = " "
       /\ IsDigit(f[2])
       /\ f[2] # "0"

DayValue(f) == IF f[1] = " " THEN DigitValue(f[2]) ELSE DigitsValue(f)

\* datetime.strptime(text, '%Y-%m-%d') returns a date: four digits of a year
\* from 1 on, a month and a day of that month, separated by hyphens
strptime_parses(text) ==
    /\ Len(text) >= 8
    /\ \A i \in 1..4 : IsDigit(text[i])
    /\ DigitsValue(SubSeq(text, 1, 4)) >= 1
    /\ text[5] = "-"
    /\ \E k \in 7..(Len(text) - 1) :
          /\ text[k] = "-"
          /\ IsMonthField(SubSeq(text, 6, k - 1))
          /\ IsDayField(SubSeq(text, k + 1, Len(text)))
          /\ DayValue(SubSeq(text, k + 1, Len(text)))
                 <= DaysInMonth(DigitsValue(SubSeq(text, 1, 4)),
                                DigitsValue(SubSeq(text, 6, k - 1)))

Absent == [present |-> FALSE, text |-> <<>>]

Present(text) == [present |-> TRUE, text |-> text]

DateRequestTypes ==
    {"MilkYieldPredictionRequest", "MastitisPredictionRequest",
     "SomaticCellCountPredictionRequest"}

\* lines 25-33, 57-65 and 80-88: the date validator, the same code in the
\* three request schemas
validate_date(v) ==
    IF v.present /\ Len(strip(v.text)) > 0
    THEN IF strptime_parses(strip(v.text))
         THEN Ok([value |-> Present(strip(v.text))])
         ELSE ValidationError("the date must be given as YYYY-MM-DD")
    ELSE Ok([value |-> v])

SccWarningThreshold == 10000

\* logger.warning(...) in schemas/ai_prediction.py: the module imports
\* pydantic, typing and datetime (lines 3-5) and defines no name logger
schema_logger_warning == PyException("NameError", "name 'logger' is not defined")

\* lines 90-96: validate_scc, on the float v / SccDenominator
validate_scc(v) ==
    IF v < 0
    THEN ValidationError("somatic cell count must be 0 or more")
    ELSE IF v > SccWarningThreshold * SccDenominator
    THEN schema_logger_warning
    ELSE Ok([value |-> v])

\* line 76 and lines 90-96: the field's ge=0 constraint, then the validator
validate_somatic_cell_count(v) ==
    IF ~(v >= 0)
    THEN ValidationError("ensure this value is greater than or equal to 0")
    ELSE validate_scc(v)

(***************************************************************************)
(* The state machine.  Every handler runs to completion (section 5 of the  *)
(* specification: no suspension point inside the pipeline); the disk       *)
(* changes between handlers.                                               *)
(***************************************************************************)
\* the sequences over S of the lengths lo..hi
SeqsOf(S, lo, hi) == UNION {[1..n -> S] : n \in lo..hi}

SccRequests(values) == [cow_id : CowIds, somatic_cell_count : values]

\* the sample counts of the built-in self-test and a negative one
SccSamples == {v * SccDenominator : v \in {-1, 50, 150, 400}}

\* the counts of the batch items: a negative one and one of the top band
BatchSccSamples == {v * SccDenominator : v \in {-1, 400}}

\* every count from below zero to above the upper threshold, and the samples
SccValues ==
    ((0 - SccMargin * SccDenominator) ..
        ((SccThresholdCaution + SccMargin) * SccDenominator)) \cup SccSamples

\* what the batch environment explores: one healthy call, and one failing
\* in inference
BatchYieldEnvs == {e \in YieldEnvs : ~e.stat_error /\ ~e.confidence_raises
                                      /\ e.fault \in {"none", "predict"}}

BatchMastitisEnvs == {e \in MastitisEnvs : ~e.confidence_raises /\ e.fault = "none"
                                            /\ e.prediction \in {1, 3}}

\* a step without arguments, a step without a response
NoRequest == [args |-> <<>>]

NoResponse == [status |-> "none"]

Threads == 1..MaxThreads

\* no accessor call in flight
NoCall == [pc |-> "idle", ret |-> <<None, None>>, hit |-> FALSE, deserializations |-> 0]

\* the process starts with empty caches, on the disk fs
Started(fs) ==
    /\ files = fs
    /\ cache = [f \in Families |-> EmptyCache]
    /\ op = "startup"
    /\ request = NoRequest
    /\ result = Ok(NoResponse)
    /\ loads = <<>>
    /\ trace = <<>>
    /\ items = <<>>
    /\ threads = [t \in Threads |-> NoCall]

\* any disk at startup
Init == \E fs \in [Paths -> FileStates] : Started(fs)

\* both families deployed alike: nothing, a good scaler with a corrupt model,
\* or both artifacts
BatchDisks ==
    {[path \in Paths |-> IF path \in {SCALER_PATH(f) : f \in Families} THEN d[1] ELSE d[2]] :
        d \in {<<"missing", "missing">>, <<"ok", "corrupt">>, <<"ok", "ok">>}}

BatchInit == \E fs \in BatchDisks : Started(fs)

\* the rule-based path reads neither the disk nor the caches
SccInit == Started([path \in Paths |-> "missing"])

\* the handler named name ran on req with the outcome o
Ran(name, req, o) ==
    /\ op' = name
    /\ request' = req
    /\ result' = o.result
    /\ cache' = o.cache
    /\ loads' = o.loads
    /\ trace' = o.trace
    /\ items' = o.items
    /\ UNCHANGED <<files, threads>>

\* an operator deploys, repairs, damages or removes an artifact of paths
FileChangeOn(paths) ==
    \E path \in paths, st \in FileStates :
        /\ files[path] # st
        /\ files' = [files EXCEPT ![path] = st]
        /\ op' = "file_change"
        /\ request' = [path |-> path, state |-> st]
        /\ result' = Ok(NoResponse)
        /\ loads' = <<>>
        /\ trace' = <<>>
        /\ items' = <<>>
        /\ UNCHANGED <<cache, threads>>

FileChange == FileChangeOn(Paths)

\* the artifacts are removed from the disk
RemoveArtifacts ==
    /\ \E path \in Paths : files[path] # "missing"
    /\ files' = [path \in Paths |-> "missing"]
    /\ op' = "remove_artifacts"
    /\ request' = NoRequest
    /\ result' = Ok(NoResponse)
    /\ loads' = <<>>
    /\ trace' = <<>>
    /\ items' = <<>>
    /\ UNCHANGED <<cache, threads>>

\* the startup event of the server; the service class can also be used
\* without it, so the handlers below do not wait for it
InitializeModels ==
    /\ op = "startup"
    /\ \E stat_error \in BOOLEAN :
          Ran("initialize_models", NoRequest, initialize_models(cache, files, stat_error))

\* predict_milk_yield in the environments envs
PredictMilkYieldOn(envs) ==
    \E req \in FeatureRequests, env \in envs :
        Ran("predict_milk_yield", req, predict_milk_yield(req, cache, files, env))

PredictMilkYield == PredictMilkYieldOn(YieldEnvs)

\* the member predictions explored
TreeValues == -1 .. 4

TreeLists == SeqsOf(TreeValues, 1, MaxTrees)

\* healthy calls on every ensemble of TreeLists
ConfidenceYieldEnvs ==
    [stat_error : {FALSE}, fault : {"none"}, prediction : {2550},
     confidence_raises : BOOLEAN, tree_predictions : TreeLists]

\* the confidence estimator on its own
CalculateConfidence ==
    \E env \in ConfidenceYieldEnvs :
        Ran("_calculate_confidence",
            [tree_predictions |-> env.tree_predictions, raises |-> env.confidence_raises],
            Outcome(_calculate_confidence(env), cache, <<>>, <<>>))

PredictMastitis ==
    \E req \in FeatureRequests, env \in MastitisEnvs :
        Ran("predict_mastitis", req, predict_mastitis(req, cache, files, env))

CheckModelHealth ==
    \E env \in HealthEnvs :
        Ran("check_model_health", NoRequest, check_model_health(cache, files, env))

\* predict_mastitis_by_scc on the somatic cell counts values
PredictMastitisBySccOn(values) ==
    \E req \in SccRequests(values) :
        Ran("predict_mastitis_by_scc", req, predict_mastitis_by_scc(req, cache))

PredictMastitisByScc == PredictMastitisBySccOn(SccValues)

CategorizeScc ==
    \E v \in {x \in SccValues : x >= 0} :
        Ran("_categorize_scc", [scc_value |-> v], Outcome(Ok(_categorize_scc(v)), cache, <<>>, <<>>))

PredictMilkYieldBatch ==
    \E reqs \in SeqsOf(FeatureRequests, 0, MaxBatch) :
        \E envs \in [1..Len(reqs) -> BatchYieldEnvs] :
            Ran("predict_milk_yield_batch", [predictions |-> reqs],
                predict_milk_yield_batch(reqs, envs, cache, files))

PredictMastitisBatch ==
    \E reqs \in SeqsOf(FeatureRequests, 0, MaxBatch) :
        \E envs \in [1..Len(reqs) -> BatchMastitisEnvs] :
            Ran("predict_mastitis_batch", [predictions |-> reqs],
                predict_mastitis_batch(reqs, envs, cache, files))

TestSccPrediction ==
    Ran("test_scc_prediction", NoRequest, test_scc_prediction(cache))

PredictMastitisSccBatch ==
    \E reqs \in SeqsOf(SccRequests(BatchSccSamples), 1, MaxBatch) :
        Ran("predict_mastitis_scc_batch", [predictions |-> reqs],
            predict_mastitis_scc_batch(reqs, cache))

\* a list of n valid items
ItemList(n) == [i \in 1..n |-> [cow_id |-> 0]]

\* the batch sizes explored: around both limits of the size rule
BatchSizes ==
    {0, 1, 2, MAX_BATCH_SIZE - 1, MAX_BATCH_SIZE, MAX_BATCH_SIZE + 1, MAX_BATCH_SIZE + 2}

ValidateBatchRequest ==
    \E type \in BatchRequestTypes, n \in BatchSizes :
        Ran("validate_batch_request", [type |-> type, predictions |-> ItemList(n)],
            Outcome(validate_batch_request(type, ItemList(n)), cache, <<>>, <<>>))

\* the date texts explored, without their padding
DateBodies ==
    {<<>>,
     <<"2", "0", "2", "4", "-", "0", "1", "-", "1", "5">>,
     <<"2", "0", "2", "4", "-", "1", "-", "5">>,
     <<"2", "0", "2", "4", "-", "0", "2", "-", "2", "9">>,
     <<"2", "0", "2", "3", "-", "0", "2", "-", "2", "9">>,
     <<"2", "0", "2", "4", "-", "1", "3", "-", "0", "1">>,
     <<"2", "0", "2", "4", "-", "0", "1", "-", " ", "5">>,
     <<"1", "5", "/", "0", "1", "/", "2", "0", "2", "4">>,
     <<"2", "0", "2", "4", "0", "1", "1", "5">>,
     <<"t", "o", "d", "a", "y">>}

Blanks(n) == [i \in 1..n |-> " "]

\* an absent date, and every body with up to two blanks on either side
DateValues ==
    {Absent} \cup
        {Present(Blanks(l) \o body \o Blanks(r)) : l \in 0..2, r \in 0..2, body \in DateBodies}

ValidateDate ==
    \E type \in DateRequestTypes, v \in DateValues :
        Ran("validate_date", [type |-> type, date |-> v],
            Outcome(validate_date(v), cache, <<>>, <<>>))

\* somatic cell counts around zero and around the warning threshold
SchemaSccValues ==
    (-2 .. 2) \cup
        ((SccWarningThreshold * SccDenominator - 2) .. (SccWarningThreshold * SccDenominator + 2))

ValidateScc ==
    \E v \in SchemaSccValues :
        Ran("validate_somatic_cell_count", [somatic_cell_count |-> v],
            Outcome(validate_somatic_cell_count(v), cache, <<>>, <<>>))

\* the startup load, the registry, the two model-backed predictions and the
\* health check, on a disk that changes
Next ==
    InitializeModels \/ FileChange \/ PredictMilkYield \/ PredictMastitis
        \/ CheckModelHealth

Spec == Init /\ [][Next]_vars

\* the three batch runners and the single rule-based prediction, on a disk
\* that may lose its artifacts
BatchNext ==
    RemoveArtifacts \/ PredictMilkYieldBatch \/ PredictMastitisBatch
        \/ PredictMastitisSccBatch \/ PredictMastitisBySccOn(BatchSccSamples)

BatchSpec == BatchInit /\ [][BatchNext]_vars

\* the rule-based path: every somatic cell count of SccValues
SccNext == PredictMastitisByScc \/ CategorizeScc \/ TestSccPrediction

SccSpec == SccInit /\ [][SccNext]_vars

(***************************************************************************)
(* The accessors statement by statement: the calls of Threads run the      *)
(* accessor of one family at the same time, on a disk that does not        *)
(* change.  One step is one statement that reads or writes the class       *)
(* attributes; request.family is the family.                               *)
(***************************************************************************)
\* the disks of one family: the other family has no artifacts
FamilyDisks(family) ==
    {fs \in [Paths -> FileStates] :
        \A path \in Paths \ {MODEL_PATH(family), SCALER_PATH(family)} : fs[path] = "missing"}

\* every call has been made and none has run its first statement
RaceInit ==
    \E family \in Families : \E fs \in FamilyDisks(family) :
        /\ files = fs
        /\ cache = [f \in Families |-> EmptyCache]
        /\ op = "accessor_race"
        /\ request = [family |-> family]
        /\ result = Ok(NoResponse)
        /\ loads = <<>>
        /\ trace = <<>>
        /\ items = <<>>
        /\ threads = [t \in Threads |-> [NoCall EXCEPT !.pc = "called"]]

\* the call t moves to pc, with the family's cache becoming c
Step(t, pc, c) ==
    /\ threads' = [threads EXCEPT ![t].pc = pc]
    /\ cache' = [cache EXCEPT ![request.family] = c]
    /\ UNCHANGED <<files, op, request, result, loads, trace, items>>

\* the call t returns ret
Return(t, ret, hit, c) ==
    /\ threads' = [threads EXCEPT ![t].pc = "done", ![t].ret = ret, ![t].hit = hit]
    /\ cache' = [cache EXCEPT ![request.family] = c]
    /\ UNCHANGED <<files, op, request, result, loads, trace, items>>

\* lines 38-39 and 70-71: if cls._<family>_cache_loaded: return the attributes
CheckFlag ==
    \E t \in Threads :
        /\ threads[t].pc = "called"
        /\ LET c == cache[request.family]
           IN  IF c.loaded
               THEN Return(t, <<c.model, c.scaler>>, TRUE, c)
               ELSE Step(t, IF request.family = "milk_yield" THEN "probe_model"
                            ELSE "load_scaler", c)

\* lines 44-47
ProbeModel ==
    \E t \in Threads :
        /\ threads[t].pc = "probe_model"
        /\ Step(t, IF exists(files, MODEL_PATH(request.family)) THEN "probe_scaler"
                   ELSE "failed", cache[request.family])

\* lines 48-51
ProbeScaler ==
    \E t \in Threads :
        /\ threads[t].pc = "probe_scaler"
        /\ Step(t, IF exists(files, SCALER_PATH(request.family)) THEN "load_scaler"
                   ELSE "failed", cache[request.family])

\* lines 54 and 73: cls._<family>_scaler = joblib.load(...)
LoadScaler ==
    \E t \in Threads :
        /\ threads[t].pc = "load_scaler"
        /\ threads' = [threads EXCEPT
                          ![t].pc = IF joblib_loads(files, SCALER_PATH(request.family))
                                    THEN "load_model" ELSE "failed",
                          ![t].deserializations = @ + 1]
        /\ cache' = [cache EXCEPT ![request.family].scaler =
                        IF joblib_loads(files, SCALER_PATH(request.family))
                        THEN "scaler" ELSE @]
        /\ UNCHANGED <<files, op, request, result, loads, trace, items>>

\* lines 55 and 74: cls._<family>_model = joblib.load(...)
LoadModel ==
    \E t \in Threads :
        /\ threads[t].pc = "load_model"
        /\ threads' = [threads EXCEPT
                          ![t].pc = IF joblib_loads(files, MODEL_PATH(request.family))
                                    THEN "set_flag" ELSE "failed",
                          ![t].deserializations = @ + 1]
        /\ cache' = [cache EXCEPT ![request.family].model =
                        IF joblib_loads(files, MODEL_PATH(request.family))
                        THEN "model" ELSE @]
        /\ UNCHANGED <<files, op, request, result, loads, trace, items>>

\* lines 56 and 75: cls._<family>_cache_loaded = True
SetFlag ==
    \E t \in Threads :
        /\ threads[t].pc = "set_flag"
        /\ Step(t, "return_attributes", [cache[request.family] EXCEPT !.loaded = TRUE])

\* lines 61 and 76: return cls._<family>_model, cls._<family>_scaler
ReturnAttributes ==
    \E t \in Threads :
        /\ threads[t].pc = "return_attributes"
        /\ Return(t, <<cache[request.family].model, cache[request.family].scaler>>,
                  FALSE, cache[request.family])

\* lines 46-47, 50-51, 65-66 and 79-80: the flag is set and the literal
\* (None, None) is returned
LoadFails ==
    \E t \in Threads :
        /\ threads[t].pc = "failed"
        /\ Return(t, <<None, None>>, FALSE, [cache[request.family] EXCEPT !.loaded = TRUE])

RaceNext ==
    CheckFlag \/ ProbeModel \/ ProbeScaler \/ LoadScaler \/ LoadModel \/ SetFlag
        \/ ReturnAttributes \/ LoadFails

RaceSpec == RaceInit /\ [][RaceNext]_vars

\* the yield family alone: its startup load, its predictions, single and in
\* batches, and its health check, on a disk whose yield artifacts change
YieldPaths == {MODEL_PATH("milk_yield"), SCALER_PATH("milk_yield")}

HealthInit == \E fs \in FamilyDisks("milk_yield") : Started(fs)

HealthNext ==
    InitializeModels \/ FileChangeOn(YieldPaths) \/ PredictMilkYield
        \/ PredictMilkYieldBatch \/ CheckModelHealth

HealthSpec == HealthInit /\ [][HealthNext]_vars

\* the confidence of the yield prediction, with both artifacts deployed
ConfidenceInit == Started([path \in Paths |-> "ok"])

ConfidenceNext == CalculateConfidence \/ PredictMilkYieldOn(ConfidenceYieldEnvs)

ConfidenceSpec == ConfidenceInit /\ [][ConfidenceNext]_vars

\* schema validation of the requests, before any handler runs
SchemaNext == ValidateBatchRequest \/ ValidateDate \/ ValidateScc

SchemaSpec == SccInit /\ [][SchemaNext]_vars

(***************************************************************************)
(* Properties                                                              *)
(***************************************************************************)
BatchOps == {"predict_milk_yield_batch", "predict_mastitis_batch",
             "predict_mastitis_scc_batch"}

IsIn(x, seq) == \E i \in DOMAIN seq : seq[i] = x

Unavailable(pair) == pair[1] = None \/ pair[2] = None

IsHTTP(r, status_code) == r.kind = "HTTPException" /\ r.status_code = status_code

\* C1: every predict_mastitis_by_scc call on a somatic cell count >= 0
\* succeeds with the class and label _categorize_scc gives that count and
\* with the confidence 95.0.
C1_SccPredictionSucceeds ==
    (op = "predict_mastitis_by_scc" /\ request.somatic_cell_count >= 0) =>
        /\ result.kind = "ok"
        /\ result.response.prediction_class
               = _categorize_scc(request.somatic_cell_count).class
        /\ result.response.prediction_class_label
               = _categorize_scc(request.somatic_cell_count).label
        /\ result.response.confidence = SCC_CONFIDENCE

\* C2: every accessor call returns (None, None) or a pair with both the
\* model and the scaler present, never a pair with exactly one of them.
C2_AccessorPairComplete ==
    \A i \in DOMAIN loads :
        \/ loads[i].ret = <<None, None>>
        \/ loads[i].ret[1] # None /\ loads[i].ret[2] # None

\* C3: once a family's cache-loaded flag is set, no handler changes the
\* family's cache, and every accessor call for the family is answered from
\* the cache: no existence probe, no deserialization, the cached pair as the
\* answer, whatever the disk holds by then; a family that is unavailable
\* then stays unavailable.
C3_NegativeCaching ==
    [][\A f \in Families :
          cache[f].loaded =>
              /\ cache'[f] = cache[f]
              /\ \A i \in DOMAIN loads' :
                    loads'[i].family = f =>
                        /\ loads'[i].hit
                        /\ loads'[i].probes = 0
                        /\ loads'[i].deserializations = 0
                        /\ loads'[i].ret = <<cache[f].model, cache[f].scaler>>
                        /\ Unavailable(<<cache[f].model, cache[f].scaler>>)
                               => Unavailable(loads'[i].ret)]_vars

\* C3 witness: the first load failed, the disk holds both artifacts intact,
\* and a later prediction is still answered from the cache with 503.
C3_Witness ==
    /\ op = "predict_milk_yield"
    /\ files[MODEL_PATH("milk_yield")] = "ok"
    /\ files[SCALER_PATH("milk_yield")] = "ok"
    /\ loads[1].hit
    /\ Unavailable(loads[1].ret)
    /\ IsHTTP(result, HTTP_503_SERVICE_UNAVAILABLE)

\* C4: in the result of every batch call, successful_predictions +
\* failed_predictions = total_predictions = the number of request items.
C4_BatchCountsAddUp ==
    (op \in BatchOps /\ result.kind = "ok") =>
        /\ result.response.total_predictions = Len(request.predictions)
        /\ result.response.successful_predictions + result.response.failed_predictions
               = result.response.total_predictions

\* C4 witness: a batch in which one item succeeded and another failed.
C4_Witness ==
    /\ op = "predict_milk_yield_batch"
    /\ result.kind = "ok"
    /\ result.response.successful_predictions >= 1
    /\ result.response.failed_predictions >= 1

ErrorRecords(predictions) ==
    {i \in DOMAIN predictions : "error" \in DOMAIN predictions[i]}

\* C5: the predictions list of a somatic cell count batch has one entry per
\* request item, the i-th entry echoing the i-th item's cow_id and count:
\* the item's response when it succeeded, an error record with error = true
\* and the error message when it failed; failed_predictions counts the
\* error records.
C5_SccBatchInlineRecords ==
    (op = "predict_mastitis_scc_batch" /\ result.kind = "ok") =>
        LET predictions == result.response.predictions
        IN  /\ Len(predictions) = result.response.total_predictions
            /\ Len(predictions) = Len(request.predictions)
            /\ Len(items) = Len(request.predictions)
            /\ \A i \in DOMAIN predictions :
                  /\ predictions[i].cow_id = request.predictions[i].cow_id
                  /\ predictions[i].input_features = request.predictions[i].somatic_cell_count
                  /\ items[i].result.kind = "ok" =>
                         predictions[i] = items[i].result.response
                  /\ items[i].result.kind # "ok" =>
                         /\ "error" \in DOMAIN predictions[i]
                         /\ predictions[i].error = TRUE
                         /\ predictions[i].error_message = str(items[i].result)
                  /\ "error" \in DOMAIN predictions[i] => items[i].result.kind # "ok"
            /\ Cardinality(ErrorRecords(predictions))
                   = result.response.failed_predictions

\* C5 witness: a batch of two different items that failed differently (400
\* and 500), each with its own error record.
C5_Witness ==
    /\ op = "predict_mastitis_scc_batch"
    /\ result.kind = "ok"
    /\ Len(request.predictions) >= 2
    /\ request.predictions[1].cow_id # request.predictions[2].cow_id
    /\ request.predictions[1].somatic_cell_count < 0
    /\ request.predictions[2].somatic_cell_count >= 0
    /\ result.response.predictions[1].error_message[1] = HTTP_400_BAD_REQUEST
    /\ result.response.predictions[2].error_message[1] = HTTP_500_INTERNAL_SERVER_ERROR

\* the fixed detail text of the 500 of each single prediction
InternalDetail(name) ==
    IF name = "predict_milk_yield" THEN "prediction processing error"
    ELSE "mastitis prediction processing error"

\* the texts of the exceptions raised inside the try blocks
ExceptionMessages ==
    {"request.milking_frequency", "request.milk_yield", "scaler.transform",
     "model.predict", "float(prediction)", "list index out of range",
     "request.lactation_number", "recommendation"}

\* C6: a single predict_milk_yield / predict_mastitis call ends in 503
\* exactly when the accessor's pair lacks the model or the scaler, and then
\* nothing was vectorized or inferred; every other failure is the 500 with
\* the fixed detail text, which is not the text of the exception.
C6_AvailabilityAndInternalErrors ==
    (op \in {"predict_milk_yield", "predict_mastitis"}) =>
        /\ Len(loads) = 1
        /\ result.kind \in {"ok", "HTTPException"}
        /\ IsHTTP(result, HTTP_503_SERVICE_UNAVAILABLE) <=> Unavailable(loads[1].ret)
        /\ IsHTTP(result, HTTP_503_SERVICE_UNAVAILABLE) => trace = <<>>
        /\ (result.kind # "ok" /\ ~Unavailable(loads[1].ret)) =>
               /\ IsHTTP(result, HTTP_500_INTERNAL_SERVER_ERROR)
               /\ result.detail = InternalDetail(op)
               /\ result.detail \notin ExceptionMessages

\* C6 witness: the model was loaded from disk and the inference failed: 500.
C6_Witness ==
    /\ op = "predict_milk_yield"
    /\ loads[1].ret = <<"model", "scaler">>
    /\ ~loads[1].hit
    /\ IsHTTP(result, HTTP_500_INTERNAL_SERVER_ERROR)
    /\ trace = <<"_prepare_features", "transform", "predict">>

\* C7: when check_model_health has made its four checks, it reports
\* "healthy" exactly when all four hold, "unavailable" exactly when a file
\* is missing, and "degraded" exactly when both files exist and the load or
\* the test inference failed; the file checks are the disk's and the load
\* check is the cache's.
C7_HealthStatus ==
    (op = "check_model_health" /\ "checks" \in DOMAIN result.response) =>
        LET st == result.response.status
            c == result.response.checks
            both == c.model_file_exists /\ c.scaler_file_exists
            works == c.model_load_success /\ c.prediction_test_success
        IN  /\ c.model_file_exists = exists(files, MODEL_PATH("milk_yield"))
            /\ c.scaler_file_exists = exists(files, SCALER_PATH("milk_yield"))
            /\ c.model_load_success
                   = ~Unavailable(<<cache["milk_yield"].model, cache["milk_yield"].scaler>>)
            /\ st \in {"healthy", "degraded", "unavailable"}
            /\ st = "healthy" <=> (both /\ works)
            /\ st = "unavailable" <=> ~both
            /\ st = "degraded" <=> (both /\ ~works)

\* C7 witness: both files exist and load, the model is cached, and the test
\* inference fails: degraded.
C7_Witness ==
    /\ op = "check_model_health"
    /\ "checks" \in DOMAIN result.response
    /\ result.response.checks.model_load_success
    /\ ~result.response.checks.prediction_test_success
    /\ result.response.status = "degraded"

\* the class of the count v / SccDenominator by the three bands
BandOf(v) ==
    IF v <= SccThresholdNormal * SccDenominator THEN 0
    ELSE IF v <= SccThresholdCaution * SccDenominator THEN 1
    ELSE 2

\* C8: for every scc >= 0, _categorize_scc returns class 0 when scc <= 100,
\* class 1 when 100 < scc <= 300, class 2 when scc > 300 (100 -> 0,
\* 101 -> 1, 300 -> 1, 301 -> 2, between 100 and 101 -> 1), and a smaller
\* count never gets a higher class.
C8_CategorizeBands ==
    (op = "_categorize_scc") =>
        /\ result.kind = "ok"
        /\ result.response.class = BandOf(request.scc_value)
        /\ request.scc_value = 100 * SccDenominator => result.response.class = 0
        /\ (100 * SccDenominator < request.scc_value /\ request.scc_value <= 101 * SccDenominator)
               => result.response.class = 1
        /\ request.scc_value = 300 * SccDenominator => result.response.class = 1
        /\ request.scc_value = 301 * SccDenominator => result.response.class = 2
        /\ \A w \in 0..request.scc_value :
               _categorize_scc(w).class <= result.response.class

\* C8 witness: a count strictly between 100 and 101 was classified.
C8_Witness ==
    /\ op = "_categorize_scc"
    /\ 100 * SccDenominator < request.scc_value
    /\ request.scc_value < 101 * SccDenominator
    /\ result.response.class = 1

\* C9: predict_mastitis_by_scc on a negative somatic cell count fails with
\* the 400 and never calls _categorize_scc.
C9_NegativeRejected ==
    (op = "predict_mastitis_by_scc" /\ request.somatic_cell_count < 0) =>
        /\ IsHTTP(result, HTTP_400_BAD_REQUEST)
        /\ ~IsIn("_categorize_scc", trace)

\* C9 witness: a negative count was rejected with 400.
C9_Witness ==
    /\ op = "predict_mastitis_by_scc"
    /\ request.somatic_cell_count < 0
    /\ result.kind = "HTTPException"
    /\ result.status_code = HTTP_400_BAD_REQUEST

BatchFamily(name) ==
    IF name = "predict_milk_yield_batch" THEN "milk_yield" ELSE "mastitis"

\* C10: a batch call never fails and processes every item, whatever the
\* items' own outcomes (503 and 500 included); with the family unavailable a
\* yield or mastitis batch returns failed_predictions = the number of items.
C10_BatchIsolation ==
    (op \in BatchOps) =>
        /\ result.kind = "ok"
        /\ Len(items) = Len(request.predictions)
        /\ (/\ op # "predict_mastitis_scc_batch"
            /\ Unavailable(<<cache[BatchFamily(op)].model, cache[BatchFamily(op)].scaler>>))
               => /\ result.response.failed_predictions = Len(request.predictions)
                  /\ \A i \in DOMAIN items :
                        IsHTTP(items[i].result, HTTP_503_SERVICE_UNAVAILABLE)

\* C10 witness: a mastitis batch whose first item failed with 500 and whose
\* second item was still processed, and succeeded.
C10_Witness ==
    /\ op = "predict_mastitis_batch"
    /\ Len(request.predictions) >= 2
    /\ result.kind = "ok"
    /\ IsHTTP(items[1].result, HTTP_500_INTERNAL_SERVER_ERROR)
    /\ items[2].result.kind = "ok"

\* C11: every batch request of the three batch schemas that passes schema
\* validation has at least 1 and at most 1000 items; an empty list and a
\* list of more than 1000 items are rejected.
C11_BatchSizeEnforced ==
    (op = "validate_batch_request") =>
        (result.kind = "ok" <=> Len(request.predictions) \in 1..MAX_BATCH_SIZE)

\* C18: a request that passes validation has its date absent or a text that
\* parses as YYYY-MM-DD; a present date whose text does not parse, the empty
\* and the blank text included, is rejected.
C18_DateParsesOrRejected ==
    (op = "validate_date") =>
        /\ result.kind = "ok" =>
               \/ ~result.response.value.present
               \/ strptime_parses(result.response.value.text)
        /\ (request.date.present /\ ~strptime_parses(strip(request.date.text)))
               => result.kind # "ok"

\* C19: validate_scc accepts every somatic cell count >= 0 and returns it
\* unchanged, the counts above 10000 included; it fails only for a negative
\* count, with a validation error.
C19_SccAcceptedUnchanged ==
    (op = "validate_somatic_cell_count") =>
        /\ request.somatic_cell_count >= 0 =>
               /\ result.kind = "ok"
               /\ result.response.value = request.somatic_cell_count
        /\ request.somatic_cell_count < 0 =>
               /\ result.kind = "Exception"
               /\ result.type = "ValidationError"

\* the last collaborator event of the call was the exception inside the
\* confidence estimator: nothing raised after it
ConfidenceFailed ==
    /\ trace # <<>>
    /\ trace[Len(trace)] \in {"raised: estimators_", "raised: predict_proba"}

\* C12: when _calculate_confidence or _calculate_mastitis_confidence meets an
\* exception inside, the enclosing predict_milk_yield / predict_mastitis
\* call still succeeds, and its result carries the confidence 75.0.
C12_ConfidenceFailureAbsorbed ==
    (op \in {"predict_milk_yield", "predict_mastitis"} /\ ConfidenceFailed) =>
        /\ result.kind = "ok"
        /\ result.response.confidence = CONFIDENCE_FALLBACK

\* C12 witness: a mastitis prediction whose classifier has no predict_proba
\* succeeded with the confidence 75.0.
C12_Witness ==
    /\ op = "predict_mastitis"
    /\ ConfidenceFailed
    /\ IsIn("_calculate_mastitis_confidence", trace)
    /\ result.kind = "ok"
    /\ result.response.confidence = CONFIDENCE_FALLBACK
    /\ result.response.prediction_class = 1

\* the square of 2000 * min(cv, 1) * mean * n for the member predictions tp
TwiceScaledCvSquared(tp) ==
    4000000 * min(VarNum(tp), MeanNum(tp) * MeanNum(tp))

\* C13 as claimed: the regression confidence is exactly
\* (1 - min(cv, 1)) * 100 clamped to [0, 100] when the mean is > 0, and 50.0
\* when the mean is <= 0; every successful yield result has a confidence in
\* [0, 100].
C13_ConfidenceExact ==
    /\ (op = "_calculate_confidence" /\ ~request.raises) =>
           LET tp == request.tree_predictions
               u == 1000 - result.response.confidence
           IN  IF MeanNum(tp) > 0
               THEN 4 * u * u * MeanNum(tp) * MeanNum(tp) = TwiceScaledCvSquared(tp)
               ELSE result.response.confidence = CONFIDENCE_NONPOSITIVE_MEAN
    /\ (op = "predict_milk_yield" /\ result.kind = "ok") =>
           result.response.confidence \in 0..1000

\* C13 as amended: the regression confidence is (1 - min(cv, 1)) * 100
\* clamped to [0, 100] and rounded to one decimal when the mean is > 0, and
\* 50.0 when the mean is <= 0; with the 75.0 of the fallback, every
\* successful yield result has a confidence in [0, 100].
C13_ConfidenceRounded ==
    /\ (op = "_calculate_confidence" /\ ~request.raises) =>
           LET tp == request.tree_predictions
               s == MeanNum(tp)
               c == result.response.confidence
               u == 1000 - c
           IN  /\ c \in 0..1000
               /\ s <= 0 => c = CONFIDENCE_NONPOSITIVE_MEAN
               /\ s > 0 =>
                      /\ u = 0 \/ (2 * u - 1) * (2 * u - 1) * s * s <= TwiceScaledCvSquared(tp)
                      /\ TwiceScaledCvSquared(tp) <= (2 * u + 1) * (2 * u + 1) * s * s
    /\ (op = "_calculate_confidence" /\ request.raises) =>
           result.response.confidence = CONFIDENCE_FALLBACK
    /\ (op = "predict_milk_yield" /\ result.kind = "ok") =>
           result.response.confidence \in 0..1000

\* C13 witness: an ensemble whose members disagree (1 and 2: cv = 1/3) got
\* the confidence 66.7.
C13_Witness ==
    /\ op = "_calculate_confidence"
    /\ request.tree_predictions = <<1, 2>>
    /\ ~request.raises
    /\ result.response.confidence = 667

\* what a lone first call of the family's accessor returns on the disk fs
LoneFirstCall(family, fs) ==
    IF family = "milk_yield"
    THEN _load_models(EmptyCache, fs, FALSE).ret
    ELSE _load_mastitis_models(EmptyCache, fs).ret

\* C14: whatever the interleaving of the concurrent calls of one family's
\* accessor on an unchanged disk, every call returns what a lone first call
\* returns (the loaded pair, or (None, None)), and a call that found the
\* cache flag set did not get a partially populated pair.
C14_RaceOutcomes ==
    \A t \in Threads :
        threads[t].pc = "done" =>
            /\ threads[t].ret = LoneFirstCall(request.family, files)
            /\ threads[t].hit =>
                   \/ threads[t].ret = <<None, None>>
                   \/ ~Unavailable(threads[t].ret)

\* the registry before any load
EmptyRegistry == [f \in Families |-> EmptyCache]

\* C15: a predict_mastitis_by_scc or predict_mastitis_scc_batch call,
\* successful or failing, leaves the cached model, scaler and flag of both
\* families as they were, makes no accessor call, and ends as it ends on an
\* empty registry.
C15_SccLeavesRegistry ==
    [][(op' \in {"predict_mastitis_by_scc", "predict_mastitis_scc_batch"}) =>
          /\ cache' = cache
          /\ loads' = <<>>
          /\ op' = "predict_mastitis_by_scc" =>
                 result' = predict_mastitis_by_scc(request', EmptyRegistry).result
          /\ op' = "predict_mastitis_scc_batch" =>
                 result' = predict_mastitis_scc_batch(request'.predictions,
                                                      EmptyRegistry).result]_vars

\* C15 witness: a rule-based prediction ran while the registry held the
\* loaded mastitis pair and a failed yield load.
C15_Witness ==
    /\ op = "predict_mastitis_by_scc"
    /\ cache["mastitis"] = [model |-> "model", scaler |-> "scaler", loaded |-> TRUE]
    /\ cache["milk_yield"].loaded
    /\ result.kind = "HTTPException"

\* the responses of the items that succeeded, in the order of the items
RECURSIVE SucceededResponses(_)
SucceededResponses(its) ==
    IF its = <<>> THEN <<>>
    ELSE IF its[1].result.kind = "ok"
    THEN <<its[1].result.response>> \o SucceededResponses(Tail(its))
    ELSE SucceededResponses(Tail(its))

\* C16: the predictions list of a yield or mastitis batch is exactly the
\* results of the items that succeeded, in the order of the request (the
\* i-th result echoing the i-th succeeded item), so that len(predictions) =
\* successful_predictions <= total_predictions.
C16_BatchPredictionsInOrder ==
    (op \in {"predict_milk_yield_batch", "predict_mastitis_batch"} /\ result.kind = "ok") =>
        LET predictions == result.response.predictions
            succeeded == SelectSeq([i \in DOMAIN items |-> [item |-> items[i],
                                                          request |-> request.predictions[i]]],
                                   LAMBDA x : x.item.result.kind = "ok")
        IN  /\ predictions = SucceededResponses(items)
            /\ Len(predictions) = Len(succeeded)
            /\ \A i \in DOMAIN predictions :
                   predictions[i].cow_id = succeeded[i].request.cow_id
            /\ Len(predictions) = result.response.successful_predictions
            /\ Len(predictions) <= result.response.total_predictions

\* C16 witness: a yield batch of two different items that both succeeded.
C16_Witness ==
    /\ op = "predict_milk_yield_batch"
    /\ result.kind = "ok"
    /\ Len(result.response.predictions) = 2
    /\ request.predictions[1].cow_id # request.predictions[2].cow_id
    /\ result.response.predictions[1].cow_id = request.predictions[1].cow_id

\* C17: every class index outside [0, 3), the negative ones included, makes
\* predict_mastitis end in the internal error; every successful mastitis
\* result has prediction_class in {0, 1, 2} and the label LABELS holds at
\* exactly that index.
C17_ClassIndexInRange ==
    (op = "predict_mastitis" /\ result.kind = "ok") =>
        /\ result.response.prediction_class \in 0..(Len(LABELS) - 1)
        /\ result.response.prediction_class_label
               = LABELS[result.response.prediction_class + 1]

\* C20: initialize_models returns True only when the yield model and scaler
\* were loaded, and False when the artifacts are missing or do not
\* deserialize.
C20_InitializeReportsLoad ==
    (op = "initialize_models") =>
        /\ result.kind = "ok"
        /\ result.response.model_loaded
               <=> ~Unavailable(<<cache["milk_yield"].model, cache["milk_yield"].scaler>>)

\* C21: the built-in self-test passes: it reports test_status "completed"
\* with passed_tests = total_tests = 3 and failed_tests = 0, the predicted
\* label of every sample case being the expected one.
C21_SelfTestPasses ==
    (op = "test_scc_prediction") =>
        /\ result.response.test_status = "completed"
        /\ result.response.total_tests = 3
        /\ result.response.passed_tests = 3
        /\ result.response.failed_tests = 0
        /\ \A i \in DOMAIN result.response.test_results :
               result.response.test_results[i].predicted_label
                   = result.response.test_results[i].expected_label

\* check_model_health has just reported "healthy"
HealthyReported ==
    /\ op = "check_model_health"
    /\ result.response.status = "healthy"

\* a predict_milk_yield call, single or as a batch item, has just failed
\* with the availability error
YieldUnavailable ==
    \/ /\ op = "predict_milk_yield"
       /\ IsHTTP(result, HTTP_503_SERVICE_UNAVAILABLE)
    \/ /\ op = "predict_milk_yield_batch"
       /\ \E i \in DOMAIN items : IsHTTP(items[i].result, HTTP_503_SERVICE_UNAVAILABLE)

\* C22: once check_model_health has reported "healthy", no later
\* predict_milk_yield call, single or as a batch item, fails with 503,
\* whatever happens to the artifact files; and once a predict_milk_yield
\* call has failed with 503, no later check_model_health reports "healthy".
C22_HealthAndAvailabilityAgree ==
    /\ [](HealthyReported => [](~YieldUnavailable))
    /\ [](YieldUnavailable => [](~HealthyReported))

\* C22 witness: with both yield artifacts gone from the disk, a prediction
\* was answered from the loaded cache and succeeded.
C22_Witness ==
    /\ op = "predict_milk_yield"
    /\ \A path \in YieldPaths : files[path] = "missing"
    /\ loads[1].hit
    /\ loads[1].ret = <<"model", "scaler">>
    /\ result.kind = "ok"

====
